---------------------------- MODULE Spec2Model ----------------------------
(***************************************************************************)
(* A model of scintec/report.py: the checker of Sodar main data files.     *)
(*                                                                         *)
(* A Python str is modelled as the sequence of its characters, an int as   *)
(* an integer, a list as a sequence, a dict as a record.  A call that can  *)
(* raise returns a record [raised, exc, ret, ...], where the remaining     *)
(* fields carry the mutable arguments as the call left them.               *)
(***************************************************************************)
EXTENDS Integers, Sequences, FiniteSets, TLC

VARIABLES
    pc,                     \* where main() stands: "loop", "report"; or a function under test
    index,                  \* number of main data files main() has examined
    irregular_segments,     \* main(): list of (mnd, segment count)
    insufficient_segments,  \* main(): list of mnd
    inconsistent_segments,  \* main(): list of (sample index, mnd)
    augmented_mnds,         \* main(): list of mnd
    incongruent_mnds,       \* main(): list of (mnd, segment2)
    exceptional_mnds,       \* main(): list of mnd
    prev_mnd,               \* main(): last fully parsed mnd, or None
    prev_segment2,          \* main(): grid of prev_mnd, or None
    examined,               \* the files main() has opened so far, in order (history)
    critical,               \* the exception logged for the last examined file, or None
    calls,                  \* the parsers main() called on the last examined file
    arg,                    \* argument of the function under test
    ret                     \* its result

vars == <<pc, index, irregular_segments, insufficient_segments,
          inconsistent_segments, augmented_mnds, incongruent_mnds,
          exceptional_mnds, prev_mnd, prev_segment2, examined, critical,
          calls, arg, ret>>

\* the state of main()
mainvars == <<index, irregular_segments, insufficient_segments,
              inconsistent_segments, augmented_mnds, incongruent_mnds,
              exceptional_mnds, prev_mnd, prev_segment2, examined, critical,
              calls>>

(***************************************************************************)
(* Python values                                                           *)
(***************************************************************************)
None == [none |-> TRUE]

Digits == {"0", "1", "2", "3", "4", "5", "6", "7", "8", "9"}

DigitVal(c) ==
    CASE c = "0" -> 0 [] c = "1" -> 1 [] c = "2" -> 2 [] c = "3" -> 3
      [] c = "4" -> 4 [] c = "5" -> 5 [] c = "6" -> 6 [] c = "7" -> 7
      [] c = "8" -> 8 [] c = "9" -> 9

DigitChar(d) ==
    CASE d = 0 -> "0" [] d = 1 -> "1" [] d = 2 -> "2" [] d = 3 -> "3"
      [] d = 4 -> "4" [] d = 5 -> "5" [] d = 6 -> "6" [] d = 7 -> "7"
      [] d = 8 -> "8" [] d = 9 -> "9"

\* int(s) succeeds on a non-empty string of decimal digits (the inputs
\* carry no sign and no surrounding blanks); otherwise ValueError.
IsInt(s) == Len(s) > 0 /\ \A i \in 1..Len(s) : s[i] \in Digits

RECURSIVE ToInt(_)
ToInt(s) ==
    IF Len(s) = 0 THEN 0
    ELSE 10 * ToInt(SubSeq(s, 1, Len(s) - 1)) + DigitVal(s[Len(s)])

\* str(n), as '{0}'.format(n) renders an int
RECURSIVE StrNat(_)
StrNat(n) ==
    IF n < 10 THEN <<DigitChar(n)>>
    ELSE StrNat(n \div 10) \o <<DigitChar(n % 10)>>

Str(n) == IF n < 0 THEN <<"-">> \o StrNat(0 - n) ELSE StrNat(n)

\* s[:n], s[-n:], s[a:b] (0-based, b exclusive) of a Python string
Prefix(s, n) == SubSeq(s, 1, IF n < Len(s) THEN n ELSE Len(s))
Suffix(s, n) == SubSeq(s, IF Len(s) - n + 1 < 1 THEN 1 ELSE Len(s) - n + 1, Len(s))
Slice(s, a, b) == SubSeq(s, a + 1, IF b < Len(s) THEN b ELSE Len(s))

\* line.strip(): blanks are " " and the line terminator "\n"
Blank == {" ", "\n"}

RECURSIVE LStrip(_)
LStrip(s) ==
    IF Len(s) > 0 /\ s[1] \in Blank THEN LStrip(Tail(s)) ELSE s

RECURSIVE RStrip(_)
RStrip(s) ==
    IF Len(s) > 0 /\ s[Len(s)] \in Blank
    THEN RStrip(SubSeq(s, 1, Len(s) - 1)) ELSE s

Strip(s) == RStrip(LStrip(s))

(***************************************************************************)
(* Exceptions                                                              *)
(***************************************************************************)
\* raise ParseError(fmt.format(*args))
ParseError(fmt, args) == [type |-> "ParseError", fmt |-> fmt, args |-> args]

\* an exception of the interpreter or the library; "what" names the
\* expression that raised it
Builtin(type, what) == [type |-> type, fmt |-> what, args |-> <<>>]

Raise(e) == [raised |-> TRUE, exc |-> e, ret |-> None]
Return(v) == [raised |-> FALSE, exc |-> None, ret |-> v]

(***************************************************************************)
(* datetime and timedelta                                                  *)
(***************************************************************************)
IsLeap(y) == (y % 4 = 0 /\ y % 100 # 0) \/ y % 400 = 0

DaysInMonth(y, m) ==
    IF m = 2 THEN (IF IsLeap(y) THEN 29 ELSE 28)
    ELSE IF m \in {4, 6, 9, 11} THEN 30 ELSE 31

\* datetime(y, m, d, H, M, S) raises ValueError outside these ranges
ValidDateTime(y, m, d, H, M, S) ==
    /\ y \in 1..9999
    /\ m \in 1..12
    /\ d >= 1 /\ d <= DaysInMonth(y, m)
    /\ H \in 0..23 /\ M \in 0..59 /\ S \in 0..59

datetime(y, m, d, H, M, S) ==
    [year |-> y, month |-> m, day |-> d, hour |-> H, minute |-> M, second |-> S]

\* days from 2000-01-01 to the first day of year y (negative before 2000)
DaysBeforeYear(y) ==
    LET n == y - 2000
        c(k) == (k + 3) \div 4 - (k + 99) \div 100 + (k + 399) \div 400
    IN  365 * n + c(n)

DaysBeforeMonth(y, m) ==
    LET f[k \in 1..12] == IF k = 1 THEN 0 ELSE f[k - 1] + DaysInMonth(y, k - 1)
    IN  f[m]

\* a variant of Seconds that compares stamps to the minute
Seconds_to_the_minute(dt) ==
    (DaysBeforeYear(dt.year) + DaysBeforeMonth(dt.year, dt.month) + dt.day - 1) * 86400
      + dt.hour * 3600 + dt.minute * 60

\* the instant of a datetime, in seconds from 2000-01-01T00:00:00
Seconds(dt) ==
    (DaysBeforeYear(dt.year) + DaysBeforeMonth(dt.year, dt.month) + dt.day - 1) * 86400
      + dt.hour * 3600 + dt.minute * 60 + dt.second

\* timedelta(hours=h, minutes=m, seconds=s), normalised to days and seconds
timedelta(h, m, s) ==
    LET total == h * 3600 + m * 60 + s
    IN  [days |-> total \div 86400, seconds |-> total % 86400]

TotalSeconds(td) == td.days * 86400 + td.seconds

Pad2(n) == IF n < 10 THEN <<"0">> \o Str(n) ELSE Str(n)
Pad4(n) ==
    IF n < 10 THEN <<"0", "0", "0">> \o Str(n)
    ELSE IF n < 100 THEN <<"0", "0">> \o Str(n)
    ELSE IF n < 1000 THEN <<"0">> \o Str(n) ELSE Str(n)

\* dt.isoformat()
isoformat(dt) ==
    Pad4(dt.year) \o <<"-">> \o Pad2(dt.month) \o <<"-">> \o Pad2(dt.day) \o <<"T">>
      \o Pad2(dt.hour) \o <<":">> \o Pad2(dt.minute) \o <<":">> \o Pad2(dt.second)

(***************************************************************************)
(* str.split                                                               *)
(***************************************************************************)
\* the least element of a non-empty set of integers
Least(I) == CHOOSE i \in I : \A j \in I : i <= j

FirstIndex(s, S) ==
    LET I == {i \in 1..Len(s) : s[i] \in S}
    IN  IF I = {} THEN Len(s) + 1 ELSE Least(I)

\* s.split(sep)
RECURSIVE SplitOn(_, _)
SplitOn(s, sep) ==
    LET i == FirstIndex(s, {sep})
    IN  IF i > Len(s) THEN <<s>>
        ELSE <<SubSeq(s, 1, i - 1)>> \o SplitOn(SubSeq(s, i + 1, Len(s)), sep)

\* s.split()
RECURSIVE SplitWs(_)
SplitWs(s) ==
    LET t == LStrip(s)
        i == FirstIndex(t, Blank)
    IN  IF Len(t) = 0 THEN <<>>
        ELSE <<SubSeq(t, 1, i - 1)>> \o SplitWs(SubSeq(t, i, Len(t)))

(***************************************************************************)
(* parse0: the first segment and the path                                  *)
(***************************************************************************)
FORMAT_1 == <<"F", "O", "R", "M", "A", "T", "-", "1">>
SFAS == <<"S", "F", "A", "S">>
MND == <<"m", "n", "d">>
os_sep == "/"
os_extsep == "."

\* parse0: the range checks on the converted start stamp, lines 88-100
Parse0RangeError(y, m, d, H, M, S) ==
    IF ~(2008 < y /\ y < 2014)
    THEN ParseError("Start year {0} out of range", <<Str(y)>>)
    ELSE IF ~(0 < m /\ m < 13)
    THEN ParseError("Start month {0} out of range", <<Str(m)>>)
    ELSE IF ~(0 < d /\ d < 32)
    THEN ParseError("Start day {0} out of range", <<Str(d)>>)
    ELSE IF ~(0 <= H /\ H < 25)
    THEN ParseError("Start hour {0} out of range", <<Str(H)>>)
    ELSE IF ~(0 <= M /\ M < 61)
    THEN ParseError("Start minute {0} out of range", <<Str(M)>>)
    ELSE IF ~(0 <= S /\ S < 61)
    THEN ParseError("Start second {0} out of range", <<Str(S)>>)
    ELSE None

\* parse0: the string matches, lines 58-74
Parse0MatchError(file_format, dir_year, dir_month, file_year, file_month, file_day, file_extension, start_year, start_month, start_day, instrument_type) ==
    IF file_format # FORMAT_1
    THEN ParseError("File format {0} is incorrect", <<file_format>>)
    ELSE IF Suffix(dir_year, 2) # file_year
    THEN ParseError("Directory year {0} is not same as file year {1}",
                    <<dir_year, file_year>>)
    ELSE IF dir_month # file_month
    THEN ParseError("Directory month {0} is not same as file month {1}",
                    <<dir_month, file_month>>)
    ELSE IF dir_year # start_year
    THEN ParseError("Directory year {0} is not same as start year {1}",
                    <<dir_year, start_month>>)
    ELSE IF dir_month # start_month
    THEN ParseError("Directory month {0} is not same as start month {1}",
                    <<dir_month, start_month>>)
    ELSE IF file_day # start_day
    THEN ParseError("File day {0} is not same as start day {1}",
                    <<file_day, start_day>>)
    ELSE IF instrument_type # SFAS
    THEN ParseError("Instrument type {0} is incorrect", <<instrument_type>>)
    ELSE IF file_extension # MND
    THEN ParseError("File extension {0} is incorrect", <<file_extension>>)
    ELSE None

\* parse0 raising e with the collector as it stands
parse0_raise(e, augmented_mnds_) == Raise(e) @@ [augmented_mnds |-> augmented_mnds_]

\* a variant of parse0_return that builds the start stamp before it appends
\* to the collector
parse0_return_stamp_first(mnd, augmented_mnds_, file_extra, y, m, d, H, M, S, counts) ==
    IF ~ValidDateTime(y, m, d, H, M, S)
    THEN parse0_raise(Builtin("ValueError", "datetime()"), augmented_mnds_)
    ELSE Return([start_stamp |-> datetime(y, m, d, H, M, S),
                 file_count |-> counts[1],
                 comment_count |-> counts[2],
                 variable_count |-> counts[3],
                 bin_count |-> counts[4]])
           @@ [augmented_mnds |-> IF file_extra # os_extsep
                                  THEN Append(augmented_mnds_, mnd)
                                  ELSE augmented_mnds_]

\* lines 102-110: the side effect on the collector, then the start stamp
parse0_return(mnd, augmented_mnds_, file_extra, y, m, d, H, M, S, counts) ==
    IF ~ValidDateTime(y, m, d, H, M, S)
    THEN parse0_raise(Builtin("ValueError", "datetime()"),
                      IF file_extra # os_extsep THEN Append(augmented_mnds_, mnd)
                      ELSE augmented_mnds_)
    ELSE Return([start_stamp |-> datetime(y, m, d, H, M, S),
                 file_count |-> counts[1],
                 comment_count |-> counts[2],
                 variable_count |-> counts[3],
                 bin_count |-> counts[4]])
           @@ [augmented_mnds |-> IF file_extra # os_extsep
                                  THEN Append(augmented_mnds_, mnd)
                                  ELSE augmented_mnds_]

\* lines 88-100, on the converted numbers
parse0_range(mnd, augmented_mnds_, file_extra, range, y, m, d, H, M, S, counts) ==
    IF range # None THEN parse0_raise(range, augmented_mnds_)
    ELSE parse0_return(mnd, augmented_mnds_, file_extra, y, m, d, H, M, S, counts)

\* lines 76-86: the number conversions
parse0_convert(mnd, augmented_mnds_, file_extra, date, time, file_count, line3) ==
    IF \E s \in {date[1], date[2], date[3], time[1], time[2], time[3],
                 file_count, line3[1], line3[2], line3[3]} : ~IsInt(s)
    THEN parse0_raise(Builtin("ValueError", "int()"), augmented_mnds_)
    ELSE parse0_range(mnd, augmented_mnds_, file_extra,
                      Parse0RangeError(ToInt(date[1]), ToInt(date[2]), ToInt(date[3]),
                                       ToInt(time[1]), ToInt(time[2]), ToInt(time[3])),
                      ToInt(date[1]), ToInt(date[2]), ToInt(date[3]),
                      ToInt(time[1]), ToInt(time[2]), ToInt(time[3]),
                      <<ToInt(file_count), ToInt(line3[1]), ToInt(line3[2]),
                        ToInt(line3[3])>>)

\* lines 58-74, on the outcome of the string matches
parse0_match(mnd, augmented_mnds_, file_extra, match, date, time, file_count, line3) ==
    IF match # None THEN parse0_raise(match, augmented_mnds_)
    ELSE parse0_convert(mnd, augmented_mnds_, file_extra, date, time, file_count, line3)

\* lines 50-56: the parts of the directory and file names
parse0_names(segment, mnd, augmented_mnds_, mnd_dir, mnd_file, date, time, file_count, line3) ==
    IF Len(mnd_file) < 7
    THEN parse0_raise(Builtin("IndexError", "mnd_file[6]"), augmented_mnds_)
    ELSE parse0_match(mnd, augmented_mnds_, mnd_file[7],
                      Parse0MatchError(segment[1], Prefix(mnd_dir, 4), Suffix(mnd_dir, 2),
                                       Slice(mnd_file, 0, 2), Slice(mnd_file, 2, 4),
                                       Slice(mnd_file, 4, 6), Suffix(mnd_file, 3),
                                       date[1], date[2], date[3], segment[3]),
                      date, time, file_count, line3)

\* line 49
parse0_path(segment, mnd, augmented_mnds_, path, date, time, file_count, line3) ==
    IF Len(path) < 2
    THEN parse0_raise(Builtin("ValueError", "unpack mnd.split(os.sep)[-2:]"),
                      augmented_mnds_)
    ELSE parse0_names(segment, mnd, augmented_mnds_, path[Len(path) - 1],
                      path[Len(path)], date, time, file_count, line3)

\* lines 45-46
parse0_counts(segment, mnd, augmented_mnds_, date, time, file_count, line3) ==
    IF Len(line3) # 3
    THEN parse0_raise(Builtin("ValueError", "unpack segment[3].split()"), augmented_mnds_)
    ELSE parse0_path(segment, mnd, augmented_mnds_, SplitOn(mnd, os_sep),
                     date, time, file_count, line3)

\* lines 43-44
parse0_stamp(segment, mnd, augmented_mnds_, date, time, file_count) ==
    IF Len(date) # 3
    THEN parse0_raise(Builtin("ValueError", "unpack start_date.split('-')"),
                      augmented_mnds_)
    ELSE IF Len(time) # 3
    THEN parse0_raise(Builtin("ValueError", "unpack start_time.split(':')"),
                      augmented_mnds_)
    ELSE IF Len(segment) < 4
    THEN parse0_raise(Builtin("IndexError", "segment[]"), augmented_mnds_)
    ELSE parse0_counts(segment, mnd, augmented_mnds_, date, time, file_count,
                       SplitWs(segment[4]))

\* line 42
parse0_line1(segment, mnd, augmented_mnds_, line1) ==
    IF Len(line1) # 3
    THEN parse0_raise(Builtin("ValueError", "unpack segment[1].split()"), augmented_mnds_)
    ELSE parse0_stamp(segment, mnd, augmented_mnds_, SplitOn(line1[1], "-"),
                      SplitOn(line1[2], ":"), line1[3])

\* parse0(segment, mnd, augmented_mnds): the field augmented_mnds of the
\* result is the collector as the call left it, raised or not.  Each value
\* the function names is handed on as a parameter of the operator that
\* models the lines after it.
parse0(segment, mnd, augmented_mnds_) ==
    IF Len(segment) < 2
    THEN parse0_raise(Builtin("IndexError", "segment[]"), augmented_mnds_)
    ELSE parse0_line1(segment, mnd, augmented_mnds_, SplitWs(segment[2]))

(***************************************************************************)
(* parse1: the second segment                                              *)
(*                                                                         *)
(* A line of the second segment is a record: head is the prefix that       *)
(* line.startswith() recognises ("" when none does), parts is              *)
(* line.split(' # ') and last is int(line.split()[-1]).                    *)
(***************************************************************************)
AZIMUTH == "antenna azimuth angle [deg] : "
GROUND == "height above ground [m]     : "
SEALEVEL == "height above sea level [m]  : "

IsComment(line) == line.head = "#"

\* where a "while [not] line.startswith('#'): line = isegment.next()" loop
\* entered with the cursor at p leaves the cursor; Len + 1 is StopIteration
SkipWhile(segment, p, comment) ==
    LET I == {i \in p..Len(segment) : IsComment(segment[i]) # comment}
    IN  IF I = {} THEN Len(segment) + 1 ELSE Least(I)

\* the value last assigned from a line with this head in segment[a..b],
\* None when no line assigned it
Assigned(segment, a, b, head) ==
    LET I == {i \in a..b : segment[i].head = head}
    IN  IF I = {} THEN None
        ELSE [v |-> segment[CHOOSE i \in I : \A j \in I : j <= i].last]

parse1(segment, mnd, segment0) ==
    LET n == Len(segment)
        stop == Raise(Builtin("StopIteration", "isegment.next()"))
        p1 == SkipWhile(segment, 1, TRUE)
        p2 == SkipWhile(segment, p1, FALSE)
        angle == Assigned(segment, p1, p2 - 1, AZIMUTH)
        elevation == Assigned(segment, p1, p2 - 1, GROUND)
        height == Assigned(segment, p1, p2 - 1, SEALEVEL)
        p3 == SkipWhile(segment, p2, TRUE)
        p5 == SkipWhile(segment, p3 + 1, TRUE)
        vc == segment0.variable_count
        \* the first pass of the variable loop that raises, vc when none does
        J == {j \in 0..(vc - 1) :
                p5 + j > n \/ Len(segment[p5 + j].parts) < 2 \/ p5 + j + 1 > n}
        bad == IF J = {} THEN vc ELSE Least(J)
        names == [j \in 1..vc |-> segment[p5 + j - 1].parts[2]]
        p6 == p5 + vc
    IN  IF p1 > n \/ p2 > n \/ p3 > n THEN stop
        ELSE IF segment[p3].head # "Main Data"
        THEN Raise(ParseError("Main data declaration misplaced", <<>>))
        ELSE IF p3 + 1 > n \/ p5 > n THEN stop
        ELSE IF bad < vc /\ Len(segment[p5 + bad].parts) < 2
        THEN Raise(Builtin("IndexError", "line.split(' # ')[1]"))
        ELSE IF bad < vc THEN stop
        ELSE IF vc = 0 THEN Raise(Builtin("IndexError", "variables[0]"))
        ELSE IF names[1] # "z" THEN Raise(ParseError("First variable is not z", <<>>))
        ELSE IF segment[p6].head # "error code #"
        THEN Raise(ParseError("Error code declaration misplaced", <<>>))
        ELSE IF p6 + 1 > n THEN stop
        ELSE IF angle = None \/ elevation = None \/ height = None
        THEN Raise(Builtin("UnboundLocalError", "angle, elevation, height"))
        ELSE Return([angle |-> angle.v, elevation |-> elevation.v, height |-> height.v,
                     variables |-> Append(names, "error")])

(***************************************************************************)
(* _parse2 and parse2: the data segments                                   *)
(*                                                                         *)
(* A data segment is a record: well_formed says that its first line        *)
(* splits into date, time and interval, each into three numerals (when     *)
(* not, the unpacking or int() raises ValueError); date, time and interval *)
(* are the converted triples, variables the names of the second line after *)
(* the first token, rows the first column of the remaining lines.          *)
(***************************************************************************)
\* the first pair of adjacent rows whose difference is not bin_height,
\* 0 when there is none
UnevenAt(rows, bin_height) ==
    LET I == {i \in 1..(Len(rows) - 1) : rows[i + 1] - rows[i] # bin_height}
    IN  IF I = {} THEN 0 ELSE Least(I)

\* a variant of BinHeight that divides by the number of bins
BinHeight_by_bin_count(min_elevation, max_elevation, bin_count) ==
    (max_elevation - min_elevation) \div bin_count

\* bin_height = (max_elevation - min_elevation) / (bin_count - 1), the
\* integer division of Python 2, which rounds towards minus infinity
BinHeight(min_elevation, max_elevation, bin_count) ==
    (max_elevation - min_elevation) \div (bin_count - 1)

_parse2(index_, segment, mnd, segment0, segment1) ==
    LET start_year == segment.date[1]
        start_month == segment.date[2]
        start_day == segment.date[3]
        start_hour == segment.time[1]
        start_min == segment.time[2]
        start_sec == segment.time[3]
        sample_hour == segment.interval[1]
        sample_min == segment.interval[2]
        sample_sec == segment.interval[3]
        start_stamp == datetime(start_year, start_month, start_day,
                                start_hour, start_min, start_sec)
        sample_interval == timedelta(sample_hour, sample_min, sample_sec)
        rows == segment.rows
        min_elevation == rows[1]
        max_elevation == rows[Len(rows)]
        bin_count == Len(rows)
        bin_height == BinHeight(min_elevation, max_elevation, bin_count)
        uneven == UnevenAt(rows, bin_height)
    IN  IF ~segment.well_formed THEN Raise(Builtin("ValueError", "segment[0]"))
        ELSE IF ~(0 <= sample_hour /\ sample_hour < 25)
        THEN Raise(ParseError("Sample hour {0} out of range", <<Str(sample_hour)>>))
        ELSE IF ~(0 <= sample_min /\ sample_min < 61)
        THEN Raise(ParseError("Sample minute {0} out of range", <<Str(sample_min)>>))
        ELSE IF ~(0 <= start_sec /\ start_sec < 61)
        THEN Raise(ParseError("Sample second {0} out of range", <<Str(sample_sec)>>))
        ELSE IF ~ValidDateTime(start_year, start_month, start_day,
                               start_hour, start_min, start_sec)
        THEN Raise(Builtin("ValueError", "datetime()"))
        ELSE IF Seconds(start_stamp)
                  # Seconds(segment0.start_stamp) + index_ * TotalSeconds(sample_interval)
        THEN Raise(ParseError(
                 "Mismatched file start time {0} and sample start time {1} (sample = {2}, interval = {3})",
                 <<isoformat(segment0.start_stamp), isoformat(start_stamp),
                   Str(index_), Str(sample_interval.seconds)>>))
        ELSE IF segment.variables # segment1.variables
        THEN Raise(ParseError(
                 "Mismatched file variable list {0} and first sample variable list {1}",
                 <<segment1.variables, segment.variables>>))
        ELSE IF Len(rows) = 0 THEN Raise(Builtin("IndexError", "data[0]"))
        ELSE IF bin_count # segment0.bin_count
        THEN Raise(Builtin("AttributeError", "segment0['bin_count'].bin_count"))
        ELSE IF bin_count - 1 = 0
        THEN Raise(Builtin("ZeroDivisionError", "(max_elevation - min_elevation) / (bin_count - 1)"))
        ELSE IF uneven # 0
        THEN Raise(ParseError(
                 "Uneven elevation interval {0} to {1} compared to bin height {2!s}",
                 <<Str(rows[uneven]), Str(rows[uneven + 1]), Str(bin_height)>>))
        ELSE Return([sample_interval |-> sample_interval,
                     min_elevation |-> min_elevation,
                     max_elevation |-> max_elevation,
                     bin_height |-> bin_height,
                     bin_count |-> bin_count])

\* a variant of dict_ne that compares the elevations only
dict_ne_elevations(segmentx, segment2) ==
    \/ segmentx.min_elevation # segment2.min_elevation
    \/ segmentx.max_elevation # segment2.max_elevation
    \/ segmentx.bin_height # segment2.bin_height
    \/ segmentx.bin_count # segment2.bin_count

\* segmentx != segment2: inequality of two dicts
dict_ne(segmentx, segment2) == segmentx # segment2

\* whether the pass of the loop of parse2 that parsed a sample to segmentx
\* ends the loop: _parse2 raised, or the comparison appends and breaks
parse2_ends(segmentx, segment2) ==
    segmentx.raised \/ dict_ne(segmentx.ret, segment2)

\* lines 238-244, on the sample "end" whose pass ended the loop (0 when
\* the loop ran to its end) and the outcome segmentx of _parse2 on it
parse2_end(mnd, inconsistent_segments_, segment2, end, segmentx) ==
    IF end # 0 /\ segmentx.raised
    THEN segmentx @@ [inconsistent_segments |-> inconsistent_segments_]
    ELSE IF end # 0
    THEN Return(segment2)
           @@ [inconsistent_segments |-> Append(inconsistent_segments_, <<end, mnd>>)]
    ELSE Return(segment2) @@ [inconsistent_segments |-> inconsistent_segments_]

\* the samples whose pass would end the loop
parse2_loop(segments, mnd, segment0, segment1, inconsistent_segments_, segment2, K) ==
    IF K = {}
    THEN parse2_end(mnd, inconsistent_segments_, segment2, 0, Return(segment2))
    ELSE parse2_end(mnd, inconsistent_segments_, segment2, Least(K),
                    _parse2(Least(K), segments[Least(K) + 3], mnd, segment0, segment1))

\* a variant of parse2_first whose loop does not break: it goes on to
\* parse the samples after the first inconsistent one
parse2_first_no_break(segments, mnd, segment0, segment1, inconsistent_segments_, first) ==
    LET px(k) == _parse2(k, segments[k + 3], mnd, segment0, segment1)
        R == {k \in 1..(Len(segments) - 3) : px(k).raised}
        last == IF R = {} THEN Len(segments) - 3 ELSE Least(R) - 1
        D == {k \in 1..last : dict_ne(px(k).ret, first.ret)}
        appended == IF D = {} THEN inconsistent_segments_
                    ELSE Append(inconsistent_segments_, <<Least(D), mnd>>)
    IN  IF first.raised
        THEN first @@ [inconsistent_segments |-> inconsistent_segments_]
        ELSE IF R # {}
        THEN px(Least(R)) @@ [inconsistent_segments |-> appended]
        ELSE Return(first.ret) @@ [inconsistent_segments |-> appended]

\* line 237, on the outcome of _parse2 on the first sample
parse2_first(segments, mnd, segment0, segment1, inconsistent_segments_, first) ==
    IF first.raised
    THEN first @@ [inconsistent_segments |-> inconsistent_segments_]
    ELSE parse2_loop(segments, mnd, segment0, segment1, inconsistent_segments_, first.ret,
                     {k \in 1..(Len(segments) - 3) :
                        parse2_ends(_parse2(k, segments[k + 3], mnd, segment0, segment1),
                                    first.ret)})

\* parse2(segments, mnd, segment0, segment1, inconsistent_segments): the
\* field inconsistent_segments of the result is the collector as the call
\* left it.  The loop over segments[3:] ends at its first pass that raises
\* or breaks: pass index+1 parses the sample, which may raise, and then
\* compares it, which may append and break.
parse2(segments, mnd, segment0, segment1, inconsistent_segments_) ==
    IF Len(segments) < 3
    THEN Raise(Builtin("IndexError", "segments[2]"))
           @@ [inconsistent_segments |-> inconsistent_segments_]
    ELSE parse2_first(segments, mnd, segment0, segment1, inconsistent_segments_,
                      _parse2(0, segments[3], mnd, segment0, segment1))

(***************************************************************************)
(* segment: the lines of a file divided at its blank lines                 *)
(***************************************************************************)
\* the loop of segment() over lines[i..], entered with the closed segments
\* done and the open one, current
RECURSIVE segment_loop(_, _, _, _)
segment_loop(lines, i, done, current) ==
    IF i > Len(lines) THEN <<done, current>>
    ELSE LET line == Strip(lines[i])
         IN  IF Len(line) > 0
             THEN segment_loop(lines, i + 1, done, Append(current, line))
             ELSE IF Len(current) > 0
             THEN segment_loop(lines, i + 1, Append(done, current), <<>>)
             ELSE segment_loop(lines, i + 1, done, current)

\* a variant of segment that keeps the last segment when it is empty
segment_keep_last(lines) ==
    LET end == segment_loop(lines, 1, <<>>, <<>>)
    IN  Append(end[1], end[2])

segment(lines) ==
    LET end == segment_loop(lines, 1, <<>>, <<>>)
        segments == Append(end[1], end[2])
    IN  IF Len(end[2]) = 0 THEN SubSeq(segments, 1, Len(segments) - 1)
        ELSE segments

(***************************************************************************)
(* main: the loop over the sorted main data files                          *)
(*                                                                         *)
(* A file is a record [mnd, segments]: its path and segment(its lines).    *)
(* Every file of the run can be opened and read.                           *)
(***************************************************************************)
REGULAR == 50

NoAppends ==
    [branch |-> "", raised |-> FALSE, exc |-> None, segment2 |-> None,
     augmented_mnds |-> <<>>, inconsistent_segments |-> <<>>, calls |-> <<>>]

\* a variant of main_branch that tests for too few segments first
main_branch_few_first(segments) ==
    IF Len(segments) < 3 THEN "insufficient"
    ELSE IF Len(segments) # REGULAR THEN "irregular"
    ELSE "parse"

\* the branch main() takes on the segments of a file, lines 299-304
main_branch(segments) ==
    IF Len(segments) # REGULAR THEN "irregular"
    ELSE IF Len(segments) < 3 THEN "insufficient"
    ELSE "parse"

\* a variant of main_incongruent that does not report the first parsed file
main_incongruent_unseeded(prev_mnd_, prev_segment2_, segment2) ==
    prev_mnd_ # None /\ Len(prev_mnd_.v) > 0 /\ dict_ne(segment2, prev_segment2_.v)

\* a variant of main_except that drops the file
main_except_pass(exceptional_mnds_, mnd) == exceptional_mnds_

\* whether main() reports the parsed file as incongruent, lines 308-312;
\* prev_mnd_ is None or a path, and a path is a non-empty string
main_incongruent(prev_mnd_, prev_segment2_, segment2) ==
    IF prev_mnd_ # None /\ Len(prev_mnd_.v) > 0
    THEN dict_ne(segment2, prev_segment2_.v)
    ELSE TRUE

\* the except clause, line 318
main_except(exceptional_mnds_, mnd) == Append(exceptional_mnds_, mnd)

\* lines 305-307 on one file, with empty collectors: parse0, parse1 and
\* parse2 only append to the collectors they are handed, so what a file
\* appends does not depend on what the collectors hold.  calls lists the
\* parsers that were called.
main_parse2(r0, r2) ==
    [raised |-> r2.raised, exc |-> r2.exc, segment2 |-> r2.ret,
     augmented_mnds |-> r0.augmented_mnds,
     inconsistent_segments |-> r2.inconsistent_segments,
     calls |-> <<"parse0", "parse1", "parse2">>]

main_parse1(f, r0, r1) ==
    IF r1.raised
    THEN [raised |-> TRUE, exc |-> r1.exc, segment2 |-> None,
          augmented_mnds |-> r0.augmented_mnds, inconsistent_segments |-> <<>>,
          calls |-> <<"parse0", "parse1">>]
    ELSE main_parse2(r0, parse2(f.segments, f.mnd, r0.ret, r1.ret, <<>>))

main_parse0(f, r0) ==
    IF r0.raised
    THEN [raised |-> TRUE, exc |-> r0.exc, segment2 |-> None,
          augmented_mnds |-> r0.augmented_mnds, inconsistent_segments |-> <<>>,
          calls |-> <<"parse0">>]
    ELSE main_parse1(f, r0, parse1(f.segments[2], f.mnd, r0.ret))

main_parse(f) == main_parse0(f, parse0(f.segments[1], f.mnd, <<>>))

(***************************************************************************)
(* The main data files of a run                                            *)
(*                                                                         *)
(* A file is described by a record d: day (of May 2010, which with extra   *)
(* makes its name), extra (the characters between the day and the          *)
(* extension), count (its number of segments), header and constants (how   *)
(* its first two segments are written), grid (how its samples are          *)
(* written) and devs, the samples written differently: a set of            *)
(* [k, kind].  File(d) is the file.                                        *)
(***************************************************************************)
SAMPLES == REGULAR - 2

Join(tokens) ==
    LET f[i \in 0..Len(tokens)] ==
            IF i = 0 THEN <<>>
            ELSE IF i = 1 THEN tokens[1]
            ELSE f[i - 1] \o <<" ">> \o tokens[i]
    IN  f[Len(tokens)]

Dir == <<"2", "0", "1", "0", "_", "0", "5">>

Mnd(day, extra) ==
    Dir \o <<os_sep>> \o <<"1", "0", "0", "5">> \o Pad2(day) \o extra \o <<os_extsep>> \o MND

FORMAT_0 == <<"F", "O", "R", "M", "A", "T", "-", "0">>
XXXX == <<"X", "X", "X", "X">>

\* the rows of a grid, and the bin count its header declares
Rows(grid) ==
    CASE grid = "A" -> <<0, 10, 20>>
      [] grid = "I" -> <<0, 10, 20>>
      [] grid = "S" -> <<10, 20, 30>>
      [] grid = "H" -> <<0, 20, 40>>
      [] grid = "N" -> <<0, 10, 20, 30>>

Minutes(grid) == IF grid = "I" THEN 20 ELSE 10

Segment0(d) ==
    LET hour == IF d.header = "hour 24" THEN <<"2", "4">> ELSE <<"0", "0">>
        year == IF d.header = "start year" THEN <<"2", "0", "1", "1">>
                ELSE <<"2", "0", "1", "0">>
    IN  << IF d.header = "format" THEN FORMAT_0 ELSE FORMAT_1,
           Join(<<year \o <<"-", "0", "5", "-">> \o Pad2(d.day),
                  hour \o <<":", "0", "0", ":", "0", "0">>,
                  <<"1">>>>),
           IF d.header = "instrument" THEN XXXX ELSE SFAS,
           Join(<<<<"4">>, <<"2">>, Str(Len(Rows(d.grid)))>>) >>

Line(head, parts, last) == [head |-> head, parts |-> parts, last |-> last]

Segment1(d) ==
    LET top == << Line("#", <<"">>, 0),
                  Line(AZIMUTH, <<"">>, 0),
                  Line(GROUND, <<"">>, 5),
                  Line(SEALEVEL, <<"">>, 10),
                  Line("#", <<"">>, 0),
                  IF d.constants = "main data" THEN Line("", <<"">>, 0)
                  ELSE Line("Main Data", <<"">>, 0),
                  Line("#", <<"">>, 0),
                  Line("", <<"1", IF d.constants = "first variable" THEN "u" ELSE "z">>, 0),
                  Line("", <<"2", "speed">>, 0) >>
    IN  IF d.constants = "exhausted" THEN top
        ELSE top \o << Line("error code #", <<"">>, 0), Line("#", <<"">>, 0) >>

\* the date and the time of day t seconds after the start of the day, for
\* t from one day before to one day after
Date(day, t) == <<2010, 5, IF t < 0 THEN day - 1 ELSE IF t >= 86400 THEN day + 1 ELSE day>>
Time(t) ==
    LET u == (t + 86400) % 86400
    IN  <<u \div 3600, (u % 3600) \div 60, u % 60>>

Kinds(d, k) == {x.kind : x \in {x \in d.devs : x.k = k}}

Sample(d, k) ==
    LET kinds == Kinds(d, k)
        minutes == IF "interval" \in kinds \/ "interval only" \in kinds
                   THEN 2 * Minutes(d.grid) ELSE Minutes(d.grid)
        t == k * 60 * (IF "interval only" \in kinds THEN Minutes(d.grid) ELSE minutes)
               + (IF "late" \in kinds THEN 1 ELSE 0)
               - (IF "early" \in kinds THEN 1 ELSE 0)
        base == Rows(d.grid)
        n == Len(base)
        rows == IF "shift" \in kinds THEN [i \in 1..n |-> base[i] + 10]
                ELSE IF "stretch" \in kinds THEN [i \in 1..n |-> 2 * base[i]]
                ELSE IF "min" \in kinds THEN [base EXCEPT ![1] = @ + 5]
                ELSE IF "max" \in kinds THEN [base EXCEPT ![n] = @ + 5]
                ELSE IF "uneven" \in kinds THEN [base EXCEPT ![2] = @ + 5]
                ELSE IF "count" \in kinds THEN SubSeq(base, 1, n - 1)
                ELSE base
    IN  [well_formed |-> "garbled" \notin kinds,
         date |-> Date(d.day, t),
         time |-> Time(t),
         interval |-> <<0, minutes, 0>>,
         variables |-> IF "variables" \in kinds THEN <<"z", "error">>
                       ELSE <<"z", "speed", "error">>,
         rows |-> rows]

File(d) ==
    LET all == <<Segment0(d), Segment1(d)>> \o [k \in 1..(d.count - 2) |-> Sample(d, k - 1)]
    IN  [mnd |-> Mnd(d.day, d.extra),
         segments |-> IF d.count < 2 THEN SubSeq(all, 1, d.count) ELSE all]

\* the body of the try statement on one file, lines 297-316, with empty
\* collectors: the branch taken and, on the parse branch, what was appended,
\* the grid returned and the exception raised
main_try(f) ==
    IF main_branch(f.segments) = "parse" THEN main_parse(f) @@ [branch |-> "parse"]
    ELSE [NoAppends EXCEPT !.branch = main_branch(f.segments)]

(***************************************************************************)
(* The runs                                                                *)
(***************************************************************************)
MaxFiles == 3

Regular(day) ==
    [day |-> day, extra |-> <<>>, count |-> REGULAR, header |-> "ok",
     constants |-> "ok", grid |-> "A", devs |-> {}]

Dev(k, kind) == [k |-> k, kind |-> kind]

\* the files a run may hold for a day
RunDescs(day) ==
    LET r == Regular(day)
    IN  {[r EXCEPT !.count = c] : c \in {0, 1, 2, 12, 49, 51}}
          \cup {[r EXCEPT !.count = 49, !.extra = <<"x">>]}
          \cup {[r EXCEPT !.header = "format", !.extra = e] : e \in {<<>>, <<"x">>}}
          \cup {[r EXCEPT !.header = "hour 24", !.extra = <<"x">>]}
          \cup {[r EXCEPT !.constants = "main data", !.extra = <<"x">>]}
          \cup {[r EXCEPT !.devs = {Dev(3, "late")}]}
          \cup {[r EXCEPT !.grid = g] : g \in {"A", "I", "S", "H", "N"}}
          \cup {[r EXCEPT !.extra = <<"x">>]}
          \cup {[r EXCEPT !.devs = {Dev(5, "shift")}]}
          \cup {[r EXCEPT !.devs = {Dev(5, "shift"), Dev(7, "late")}]}

FirstDay == 12

\* the files of a one-file run: a regular file with one sample written
\* differently, or with two
AlterKinds ==
    {"interval", "interval only", "shift", "stretch", "min", "max", "uneven",
     "count", "variables", "garbled", "late", "early"}

OtherKinds == {"interval", "shift", "uneven"}
OtherSamples == {0, 1, 23, SAMPLES - 1}

FileDescs ==
    LET r == Regular(FirstDay)
    IN  {r}
          \cup {[r EXCEPT !.devs = {Dev(k, kind)}] :
                   k \in 0..(SAMPLES - 1), kind \in AlterKinds}
          \cup {[r EXCEPT !.devs = {Dev(k, kind), Dev(j, other)}] :
                   k \in 0..(SAMPLES - 1), kind \in {"late", "early"},
                   j \in OtherSamples, other \in OtherKinds}

Descs == FileDescs \cup UNION {RunDescs(FirstDay + i) : i \in 0..MaxFiles}

FileOf == [d \in Descs |-> File(d)]
Tried == [d \in Descs |-> main_try(FileOf[d])]

\* main() before its first file, lines 278-288
Idle ==
    /\ index = 0
    /\ irregular_segments = <<>>
    /\ insufficient_segments = <<>>
    /\ inconsistent_segments = <<>>
    /\ augmented_mnds = <<>>
    /\ incongruent_mnds = <<>>
    /\ exceptional_mnds = <<>>
    /\ prev_mnd = None
    /\ prev_segment2 = None
    /\ examined = <<>>
    /\ critical = None
    /\ calls = <<>>

Init ==
    /\ Idle
    /\ pc = "loop"
    /\ arg = None
    /\ ret = None

\* one pass of the loop of main() over the files, lines 293-320: d
\* describes the file, mnd is its path, count its number of segments and r
\* the outcome of the try body on it
Examine(d, mnd, count, r) ==
    /\ pc = "loop"
    /\ index' = index + 1
    /\ examined' = Append(examined, d)
    /\ irregular_segments' =
          IF r.branch = "irregular" THEN Append(irregular_segments, <<mnd, count>>)
          ELSE irregular_segments
    /\ insufficient_segments' =
          IF r.branch = "insufficient" THEN Append(insufficient_segments, mnd)
          ELSE insufficient_segments
    /\ augmented_mnds' = augmented_mnds \o r.augmented_mnds
    /\ inconsistent_segments' = inconsistent_segments \o r.inconsistent_segments
    /\ incongruent_mnds' =
          IF r.branch = "parse" /\ ~r.raised
               /\ main_incongruent(prev_mnd, prev_segment2, r.segment2)
          THEN Append(incongruent_mnds, <<mnd, r.segment2>>)
          ELSE incongruent_mnds
    /\ prev_mnd' = IF r.branch = "parse" /\ ~r.raised THEN [v |-> mnd] ELSE prev_mnd
    /\ prev_segment2' =
          IF r.branch = "parse" /\ ~r.raised THEN [v |-> r.segment2] ELSE prev_segment2
    /\ exceptional_mnds' =
          IF r.raised THEN main_except(exceptional_mnds, mnd) ELSE exceptional_mnds
    /\ critical' = r.exc
    /\ calls' = r.calls
    /\ UNCHANGED <<pc, arg, ret>>

\* the loop ends when the files are exhausted; lines 322-375 only log
Report ==
    /\ pc = "loop"
    /\ pc' = "report"
    /\ UNCHANGED <<mainvars, arg, ret>>

ExamineNext ==
    /\ index < MaxFiles
    /\ \E d \in RunDescs(FirstDay + index) :
          Examine(d, FileOf[d].mnd, Len(FileOf[d].segments), Tried[d])

Next == ExamineNext \/ Report

Spec == Init /\ [][Next]_vars

\* a run over one file
ExamineOne ==
    /\ index < 1
    /\ \E d \in FileDescs :
          Examine(d, FileOf[d].mnd, Len(FileOf[d].segments), Tried[d])

NextFile == ExamineOne \/ Report

SpecFile == Init /\ [][NextFile]_vars

(***************************************************************************)
(* parse0 called on one header and path                                    *)
(*                                                                         *)
(* The header and the path are written from a record of the fields that    *)
(* parse0 compares: each field has its well-formed value and corrupted     *)
(* ones.                                                                   *)
(***************************************************************************)
DAT == <<"d", "a", "t">>

HeaderFields ==
    [format : {FORMAT_1, FORMAT_0},
     dir_year : {<<"2", "0", "1", "0">>, <<"2", "0", "1", "1">>, <<"1", "9", "1", "0">>},
     dir_month : {<<"0", "5">>, <<"0", "6">>},
     file_year : {<<"1", "0">>, <<"1", "1">>},
     file_month : {<<"0", "5">>, <<"0", "6">>},
     file_day : {<<"1", "2">>, <<"1", "3">>},
     extra : {<<>>, <<"x">>},
     extension : {MND, DAT},
     start_year : {<<"2", "0", "1", "0">>, <<"2", "0", "1", "1">>},
     start_month : {<<"0", "5">>, <<"0", "6">>},
     start_day : {<<"1", "2">>, <<"1", "3">>},
     instrument : {SFAS, XXXX}]

HeaderSegment(h) ==
    << h.format,
       Join(<<h.start_year \o <<"-">> \o h.start_month \o <<"-">> \o h.start_day,
              <<"0", "0", ":", "0", "0", ":", "0", "0">>,
              <<"1">>>>),
       h.instrument,
       Join(<<<<"4">>, <<"2">>, <<"3">>>>) >>

HeaderPath(h) ==
    h.dir_year \o <<"_">> \o h.dir_month \o <<os_sep>>
      \o h.file_year \o h.file_month \o h.file_day \o h.extra
      \o <<os_extsep>> \o h.extension

InitHeader ==
    /\ Idle
    /\ pc = "parse0"
    /\ arg \in HeaderFields
    /\ ret = None

Call_parse0 ==
    /\ pc = "parse0"
    /\ ret' = parse0(HeaderSegment(arg), HeaderPath(arg), <<>>)
    /\ pc' = "return"
    /\ UNCHANGED <<mainvars, arg>>

SpecHeader == InitHeader /\ [][Call_parse0]_vars

(***************************************************************************)
(* segment called on the lines of one file                                 *)
(***************************************************************************)
MaxLines == 4

\* lines as readlines() gives them: blank ones, and ones with text
Lines ==
    { <<"\n">>, <<" ", "\n">>, <<"a", "\n">>, <<" ", "a", " ", "\n">>, <<"b", "\n">> }

InitSegment ==
    /\ Idle
    /\ pc = "segment"
    /\ arg \in UNION {[1..n -> Lines] : n \in 0..MaxLines}
    /\ ret = None

Call_segment ==
    /\ pc = "segment"
    /\ ret' = segment(arg)
    /\ pc' = "return"
    /\ UNCHANGED <<mainvars, arg>>

SpecSegment == InitSegment /\ [][Call_segment]_vars

(***************************************************************************)
(* _parse2 called on one data segment                                      *)
(*                                                                         *)
(* The data segment is sample arg.index of a file that starts at midnight  *)
(* with samples ten minutes apart; its time stamp and its variables are    *)
(* the file's, its rows have the elevations arg.rows and the header        *)
(* declares as many bins as it has rows.                                   *)
(***************************************************************************)
MaxRows == 4
MaxElev == 4

VARIABLE_NAMES == <<"z", "speed", "error">>

RowsSegment(index_, rows) ==
    [well_formed |-> TRUE,
     date |-> <<2010, 5, FirstDay>>,
     time |-> Time(index_ * 600),
     interval |-> <<0, 10, 0>>,
     variables |-> VARIABLE_NAMES,
     rows |-> rows]

RowsHeader(rows) ==
    [start_stamp |-> datetime(2010, 5, FirstDay, 0, 0, 0), file_count |-> 1,
     comment_count |-> 4, variable_count |-> 2, bin_count |-> Len(rows)]

RowsConstants ==
    [angle |-> 0, elevation |-> 5, height |-> 10, variables |-> VARIABLE_NAMES]

InitSample ==
    /\ Idle
    /\ pc = "_parse2"
    /\ arg \in [index : 0..1, rows : UNION {[1..n -> 0..MaxElev] : n \in 2..MaxRows}]
    /\ ret = None

Call__parse2 ==
    /\ pc = "_parse2"
    /\ ret' = _parse2(arg.index, RowsSegment(arg.index, arg.rows), Mnd(FirstDay, <<>>),
                      RowsHeader(arg.rows), RowsConstants)
    /\ pc' = "return"
    /\ UNCHANGED <<mainvars, arg>>

SpecSample == InitSample /\ [][Call__parse2]_vars

(***************************************************************************)
(* What a description says of its file                                     *)
(*                                                                         *)
(* These are read off the description d alone, not computed by the         *)
(* parsers.  A sample is written with at most one of the kinds that change *)
(* its rows.                                                               *)
(***************************************************************************)
Path(d) == Mnd(d.day, d.extra)

\* the grid of a file whose first sample is written as its grid says
DeclaredGrid(d) ==
    LET rows == Rows(d.grid)
    IN  [sample_interval |-> [days |-> 0, seconds |-> 60 * Minutes(d.grid)],
         min_elevation |-> rows[1],
         max_elevation |-> rows[Len(rows)],
         bin_height |-> rows[2] - rows[1],
         bin_count |-> Len(rows)]

\* sample k is written so that it cannot be parsed: its time stamp is off,
\* its first line is garbled, its variables are not the file's, its rows
\* are not as many as the header says or not evenly spaced
SampleBroken(d, k) ==
    \/ Kinds(d, k) \cap {"late", "early", "garbled", "variables",
                         "count", "min", "max", "uneven"} # {}
    \/ "interval only" \in Kinds(d, k) /\ k >= 1

\* how the grid of sample k, when it can be parsed, departs from the
\* declared grid
GridMark(d, k) ==
    (Kinds(d, k) \cap {"shift", "stretch"})
      \cup (IF Kinds(d, k) \cap {"interval", "interval only"} # {} THEN {"interval"} ELSE {})

\* the later samples that are broken or whose grid is not the first sample's
Stops(d) ==
    {k \in 1..(SAMPLES - 1) : SampleBroken(d, k) \/ GridMark(d, k) # GridMark(d, 0)}

\* the file has 50 segments and validating it fails
FailsAsWritten(d) ==
    /\ d.count = REGULAR
    /\ \/ d.header # "ok"
       \/ d.constants # "ok"
       \/ SampleBroken(d, 0)
       \/ Stops(d) # {} /\ SampleBroken(d, Least(Stops(d)))

\* the files that fail, of all the files of the runs
Failing == {d \in Descs : FailsAsWritten(d)}

Fails(d) == d \in Failing

\* the file has 50 segments and validates fully
Succeeds(d) == d.count = REGULAR /\ ~Fails(d)

\* the paths in a collection of mnd
Mnds(collection) == {collection[i] : i \in 1..Len(collection)}

Occurrences(collection, x) == Cardinality({i \in 1..Len(collection) : collection[i] = x})

\* the step is a pass of the loop of main() over a file
Examines == index' = index + 1

\* the file that pass examines
Examined == examined'[Len(examined')]

(***************************************************************************)
(* Properties of main()                                                    *)
(***************************************************************************)
\* C1: validating a file whose segment count is not 50 (0, 1, 2, 12, 49 or
\* 51 among them) appends exactly the entry (path, count) to
\* irregular_segments and nothing else: insufficient_segments,
\* augmented_mnds, inconsistent_segments, incongruent_mnds and
\* exceptional_mnds are left as they were, no parser is called, no
\* exception is raised, and the last fully parsed file and its grid are
\* unchanged.
C1_IrregularCountOnly ==
    [][ (Examines /\ Examined.count # REGULAR) =>
          /\ irregular_segments'
               = Append(irregular_segments, <<Path(Examined), Examined.count>>)
          /\ calls' = <<>>
          /\ critical' = None
          /\ UNCHANGED <<insufficient_segments, augmented_mnds, inconsistent_segments,
                         incongruent_mnds, exceptional_mnds, prev_mnd, prev_segment2>>
      ]_vars

\* C1: a run whose second file has 12 segments, after a file that parsed
C1_Witness ==
    /\ Len(examined) = 2
    /\ Succeeds(examined[1])
    /\ examined[2].count = 12
    /\ irregular_segments = << <<Path(examined[2]), 12>> >>
    /\ insufficient_segments = <<>>
    /\ prev_mnd = [v |-> Path(examined[1])]

\* C2: a failure raised while validating a file never ends the run: the
\* path of every file that failed, a file with format FORMAT-0 among them,
\* is exactly once in exceptional_mnds, every file of the sequence up to the
\* current one has been examined, and the loop can go on to the next file.
C2_FailureDoesNotEndRun ==
    /\ Len(examined) = index
    /\ critical # None => exceptional_mnds # <<>>
                            /\ exceptional_mnds[Len(exceptional_mnds)]
                                 = Path(examined[Len(examined)])
    /\ \A i \in 1..Len(examined) :
          Occurrences(exceptional_mnds, Path(examined[i]))
            = IF Fails(examined[i]) THEN 1 ELSE 0
    /\ (pc = "loop" /\ index < MaxFiles) => ENABLED ExamineNext

\* C2: a run whose first file has format FORMAT-0 and whose later files
\* parsed
C2_Witness ==
    /\ Len(examined) = 3
    /\ examined[1].header = "format"
    /\ exceptional_mnds = <<Path(examined[1])>>
    /\ Succeeds(examined[2]) /\ Succeeds(examined[3])
    /\ prev_mnd = [v |-> Path(examined[3])]

\* C3, as stated: when validating a file fails (an exception is caught,
\* which critical records), the pass appends the file to exceptional_mnds
\* only: augmented_mnds, inconsistent_segments, incongruent_mnds and the
\* last fully parsed file and its grid are as before the file.
C3_AsStated ==
    [][ (Examines /\ critical' # None) =>
          /\ exceptional_mnds' = Append(exceptional_mnds, Path(Examined))
          /\ UNCHANGED <<irregular_segments, insufficient_segments, augmented_mnds,
                         inconsistent_segments, incongruent_mnds, prev_mnd,
                         prev_segment2>>
      ]_vars

\* C3, amended: when validating a file fails, the pass appends the file to
\* exceptional_mnds and leaves the other collections and the last fully
\* parsed file and its grid as before the file, except that it may have
\* appended the file to augmented_mnds, which it only does when the name of
\* the file has an extra character.
C3_ExceptionalKeepsOnlyAugmented ==
    [][ (Examines /\ critical' # None) =>
          /\ exceptional_mnds' = Append(exceptional_mnds, Path(Examined))
          /\ \/ augmented_mnds' = augmented_mnds
             \/ /\ augmented_mnds' = Append(augmented_mnds, Path(Examined))
                /\ Examined.extra # <<>>
          /\ UNCHANGED <<irregular_segments, insufficient_segments,
                         inconsistent_segments, incongruent_mnds, prev_mnd,
                         prev_segment2>>
      ]_vars

\* C3: a file with an extra character in its name whose constants have no
\* Main Data line is both in exceptional_mnds and in augmented_mnds; and a
\* file whose sample 5 has another grid and whose sample 7 is late is not
\* exceptional
C3_Witness ==
    /\ Len(examined) = 2
    /\ examined[1].constants = "main data"
    /\ exceptional_mnds = <<Path(examined[1])>>
    /\ augmented_mnds = <<Path(examined[1])>>
    /\ examined[2].devs = {Dev(5, "shift"), Dev(7, "late")}
    /\ inconsistent_segments = << <<5, Path(examined[2])>> >>

\* the files among the first n examined that validate fully, in order
Successes(n) == SelectSeq(SubSeq(examined, 1, n), Succeeds)

\* the entries main() is to have put on incongruent_mnds: one for the first
\* file that validates fully and one for each later such file whose grid is
\* not that of the one before it
Incongruent ==
    LET files == Successes(Len(examined))
        f[n \in 0..Len(files)] ==
            IF n = 0 THEN <<>>
            ELSE IF n = 1 \/ DeclaredGrid(files[n]) # DeclaredGrid(files[n - 1])
            THEN Append(f[n - 1], <<Path(files[n]), DeclaredGrid(files[n])>>)
            ELSE f[n - 1]
    IN  f[Len(files)]

\* C4: over any sequence of files, a file that validates fully is on
\* incongruent_mnds, with its grid, if and only if it is the first such
\* file of the run or its grid differs in some field from the grid of the
\* most recent earlier file that validated fully, whatever irregular and
\* exceptional files lie between them; the grid kept for the next
\* comparison is that of the last file that validated fully.
C4_IncongruentIffFirstOrDiffers ==
    /\ incongruent_mnds = Incongruent
    /\ LET files == Successes(Len(examined))
       IN  IF files = <<>> THEN prev_mnd = None /\ prev_segment2 = None
           ELSE /\ prev_mnd = [v |-> Path(files[Len(files)])]
                /\ prev_segment2 = [v |-> DeclaredGrid(files[Len(files)])]

\* C4: two files with the same grid around an irregular one give the one
\* entry of the first
C4_Witness ==
    /\ Len(examined) = 3
    /\ Succeeds(examined[1]) /\ Succeeds(examined[3])
    /\ examined[2].count = 49
    /\ DeclaredGrid(examined[1]) = DeclaredGrid(examined[3])
    /\ incongruent_mnds = << <<Path(examined[1]), DeclaredGrid(examined[1])>> >>

\* C5, as stated: every examined file whose name has an extra character is
\* on augmented_mnds.
C5_AsStated ==
    \A i \in 1..Len(examined) :
       examined[i].extra # <<>> => Path(examined[i]) \in Mnds(augmented_mnds)

\* C5, amended: an examined file is on augmented_mnds, once, if and only if
\* its name has an extra character, it has 50 segments and its header
\* passes the string matches and the range checks of parse0, whether or not
\* validating it fails later (in the start stamp, the constants or a
\* sample).
C5_AugmentedIffHeaderChecked ==
    \A i \in 1..Len(examined) :
       Occurrences(augmented_mnds, Path(examined[i]))
         = IF /\ examined[i].extra # <<>>
              /\ examined[i].count = REGULAR
              /\ examined[i].header \in {"ok", "hour 24"}
           THEN 1 ELSE 0

\* C5: a file with 49 segments and an extra character is not on
\* augmented_mnds, one whose start stamp has hour 24 is
C5_Witness ==
    /\ Len(examined) = 2
    /\ examined[1].count = 49 /\ examined[1].extra # <<>>
    /\ examined[2].header = "hour 24" /\ examined[2].extra # <<>>
    /\ augmented_mnds = <<Path(examined[2])>>
    /\ exceptional_mnds = <<Path(examined[2])>>

(***************************************************************************)
(* Properties of parse2 on one file                                        *)
(***************************************************************************)
MISMATCHED_TIME ==
    "Mismatched file start time {0} and sample start time {1} (sample = {2}, interval = {3})"

\* the file examined is a regular one but for sample k, written as kind
OneAltered(k, kind) ==
    /\ Len(examined) = 1
    /\ examined[1].devs = {Dev(k, kind)}

MismatchAt(k) ==
    /\ exceptional_mnds = <<Path(examined[1])>>
    /\ critical # None
    /\ critical.type = "ParseError"
    /\ critical.fmt = MISMATCHED_TIME
    /\ critical.args[1] = isoformat(datetime(2010, 5, examined[1].day, 0, 0, 0))
    /\ critical.args[3] = Str(k)

\* C7, as stated: in a file with 50 segments whose header and constants
\* parse, a sample k (0..47) whose time stamp is one second off makes the
\* validation fail with the time stamp error of sample k, whatever the
\* other samples are.
C7_AsStated ==
    Len(examined) = 1 =>
       \A x \in examined[1].devs : x.kind \in {"late", "early"} => MismatchAt(x.k)

\* C7, amended: the same, provided every sample before k can be parsed and
\* has the grid of the first sample.
C7_MismatchWhenEarlierSamplesAgree ==
    Len(examined) = 1 =>
       \A x \in examined[1].devs :
          ( /\ x.kind \in {"late", "early"}
            /\ \A j \in 0..(x.k - 1) :
                  /\ ~SampleBroken(examined[1], j)
                  /\ GridMark(examined[1], j) = GridMark(examined[1], 0) )
          => MismatchAt(x.k)

\* C7: sample 23 is a second late in a file whose last sample has
\* another grid
C7_Witness ==
    /\ Len(examined) = 1
    /\ examined[1].devs = {Dev(23, "late"), Dev(SAMPLES - 1, "shift")}
    /\ MismatchAt(23)
    /\ inconsistent_segments = <<>>

(***************************************************************************)
(* Properties of segment()                                                 *)
(***************************************************************************)
NonBlank(line) == {j \in 1..Len(line) : line[j] \notin Blank}

\* the line without the blanks at its ends
Trimmed(line) ==
    SubSeq(line, Least(NonBlank(line)),
           CHOOSE j \in NonBlank(line) : \A i \in NonBlank(line) : i <= j)

\* the n-th of a set of numbers
Nth(I, n) == CHOOSE i \in I : Cardinality({j \in I : j <= i}) = n

\* the number of lines in the first s segments
LinesIn(segments, s) ==
    LET f[n \in 0..s] == IF n = 0 THEN 0 ELSE f[n - 1] + Len(segments[n])
    IN  f[s]

\* the segment that holds the n-th line, and the n-th line
SegmentOf(segments, n) == Least({s \in 1..Len(segments) : LinesIn(segments, s) >= n})
LineOf(segments, n) ==
    segments[SegmentOf(segments, n)][n - LinesIn(segments, SegmentOf(segments, n) - 1)]

\* C8: for every sequence of lines (empty, all blank, with blank lines at
\* its start, at its end or several in a row), segment() returns segments
\* none of which is empty, of lines none of which is empty or has a blank
\* at either end; the lines of the segments, in order, are the non-blank
\* input lines trimmed, in order; and two consecutive non-blank input lines
\* are in different segments exactly when a blank line lies between them.
C8_SegmentsOfNonBlankLines ==
    pc = "return" =>
       LET text == {i \in 1..Len(arg) : NonBlank(arg[i]) # {}}
           count == Cardinality(text)
       IN  /\ \A s \in 1..Len(ret) : Len(ret[s]) > 0
           /\ \A s \in 1..Len(ret) : \A l \in 1..Len(ret[s]) :
                 /\ Len(ret[s][l]) > 0
                 /\ ret[s][l][1] \notin Blank
                 /\ ret[s][l][Len(ret[s][l])] \notin Blank
           /\ LinesIn(ret, Len(ret)) = count
           /\ \A n \in 1..count : LineOf(ret, n) = Trimmed(arg[Nth(text, n)])
           /\ \A n \in 1..(count - 1) :
                 (SegmentOf(ret, n) # SegmentOf(ret, n + 1))
                   <=> (Nth(text, n + 1) > Nth(text, n) + 1)

\* C8: blank lines at the start, between two lines and at the end
C8_Witness ==
    /\ pc = "return"
    /\ arg = << <<" ", "\n">>, <<" ", "a", " ", "\n">>, <<"\n">>, <<"b", "\n">> >>
    /\ ret = << << <<"a">> >>, << <<"b">> >> >>

(***************************************************************************)
(* Properties of parse0                                                    *)
(***************************************************************************)
WellFormed ==
    [format |-> FORMAT_1,
     dir_year |-> <<"2", "0", "1", "0">>, dir_month |-> <<"0", "5">>,
     file_year |-> <<"1", "0">>, file_month |-> <<"0", "5">>, file_day |-> <<"1", "2">>,
     extra |-> <<>>, extension |-> MND,
     start_year |-> <<"2", "0", "1", "0">>, start_month |-> <<"0", "5">>,
     start_day |-> <<"1", "2">>,
     instrument |-> SFAS]

\* the fields in which h is not the well-formed header and path
Corrupted(h) == {f \in DOMAIN h : h[f] # WellFormed[f]}

\* the error of the rule that a header and path break, with the two values
\* the rule compares (or the one it tests)
RuleError(h) ==
    IF h.format # FORMAT_1
    THEN ParseError("File format {0} is incorrect", <<h.format>>)
    ELSE IF Suffix(h.dir_year, 2) # h.file_year
    THEN ParseError("Directory year {0} is not same as file year {1}",
                    <<h.dir_year, h.file_year>>)
    ELSE IF h.dir_month # h.file_month
    THEN ParseError("Directory month {0} is not same as file month {1}",
                    <<h.dir_month, h.file_month>>)
    ELSE IF h.dir_year # h.start_year
    THEN ParseError("Directory year {0} is not same as start year {1}",
                    <<h.dir_year, h.start_year>>)
    ELSE IF h.dir_month # h.start_month
    THEN ParseError("Directory month {0} is not same as start month {1}",
                    <<h.dir_month, h.start_month>>)
    ELSE IF h.file_day # h.start_day
    THEN ParseError("File day {0} is not same as start day {1}",
                    <<h.file_day, h.start_day>>)
    ELSE IF h.instrument # SFAS
    THEN ParseError("Instrument type {0} is incorrect", <<h.instrument>>)
    ELSE ParseError("File extension {0} is incorrect", <<h.extension>>)

\* C9, as stated: in an otherwise well-formed header and path, one corrupted
\* field (format, directory year or month, file year, month or day, start
\* year, month or day, instrument type or extension) makes parse0 fail with
\* the error of the rule for that field, and the error carries exactly the
\* two values the rule compared.
C9_AsStated ==
    (pc = "return" /\ Cardinality(Corrupted(arg)) = 1 /\ arg.extra = <<>>) =>
       /\ ret.raised
       /\ ret.exc = RuleError(arg)

(***************************************************************************)
(* Properties of _parse2                                                   *)
(***************************************************************************)
\* C10: for a sample with a valid time stamp and variables and n >= 2 rows,
\* n being the bin count of the header, _parse2 returns a grid if and only
\* if all adjacent rows are the same distance d apart (d positive, zero or
\* negative), and the bin height of that grid is d; otherwise it raises the
\* uneven elevation error.
C10_PassesIffUniform ==
    pc = "return" =>
       LET rows == arg.rows
           uniform == \A i \in 1..(Len(rows) - 1) :
                         rows[i + 1] - rows[i] = rows[2] - rows[1]
       IN  /\ ~ret.raised <=> uniform
           /\ ~ret.raised =>
                 /\ ret.ret.bin_height = rows[2] - rows[1]
                 /\ ret.ret.bin_count = Len(rows)
           /\ ret.raised =>
                 /\ ret.exc.type = "ParseError"
                 /\ ret.exc.fmt
                      = "Uneven elevation interval {0} to {1} compared to bin height {2!s}"

\* C10: three rows that go down by two, in the second sample
C10_Witness ==
    /\ pc = "return"
    /\ arg = [index |-> 1, rows |-> <<4, 2, 0>>]
    /\ ~ret.raised
    /\ ret.ret.bin_height = 0 - 2

=============================================================================
